---- MODULE Spec2Model ----
(***************************************************************************)
(* Model of the PRD generation pipeline of rag_system.py: the LangGraph    *)
(* workflow analyze_input -> generate_prd -> generate_questions, the       *)
(* PRDAgentState dictionary threaded through it, and the result envelope   *)
(* built by process_user_input_for_prd.                                    *)
(*                                                                         *)
(* The retriever and the chat-completion client are external: every call   *)
(* either raises or returns, and what it returns is drawn from the bounded *)
(* sets below.                                                             *)
(*                                                                         *)
(* Four further specifications share the variables: SpecConcurrent         *)
(* (concurrent invocations), SpecRepair (the repair pass on arbitrary      *)
(* parsed objects), SpecApi (the endpoint /api/process-prd of main.py) and *)
(* SpecCrud (the file-attachment endpoints of main.py and                  *)
(* main_in_memory.py).                                                     *)
(***************************************************************************)
EXTENDS Integers, Sequences, FiniteSets, TLC

VARIABLES
    pc,             \* node of the graph about to run, or "END"/"returned"/"raised"
    state,          \* the PRDAgentState dictionary
    envelope,       \* <<>> until process_user_input_for_prd returns, then <<dict>>
    calls,          \* calls issued to the retriever and the client, with their outcome
    stage_history,  \* successive values of state["processing_stage"]
    heap,           \* concurrent invocations: the state dictionaries allocated so far
    runs,           \* concurrent invocations: node, state reference, envelope and calls of each
    raw_prd,        \* repair pass alone: the object json.loads returned
    repaired_prd,   \* repair pass alone: <<>> until the pass has run, then <<object>>
    RAG_SYSTEM_AVAILABLE,   \* main.py: whether rag_system could be imported
    responses,      \* main.py: HTTP response of each /api/process-prd request, <<>> until sent
    backend,        \* file attachments: "main" (main.py) or "in_memory" (main_in_memory.py)
    file_attachments_db,    \* file attachments: the stored rows, in insertion order
    file_attachment_id_counter, \* main_in_memory.py: _file_attachment_id_counter
    now,            \* file attachments: the clock, advanced each time it is read
    issued,         \* file attachments: ids given to a created attachment so far
    posted,         \* file attachments: id |-> body of the 201 response, while not updated or deleted
    last            \* file attachments: the last request and its response

repair_vars == <<raw_prd, repaired_prd>>
api_vars == <<RAG_SYSTEM_AVAILABLE, responses>>
crud_vars ==
    <<backend, file_attachments_db, file_attachment_id_counter, now, issued, posted, last>>

vars == <<pc, state, envelope, calls, stage_history, heap, runs,
          repair_vars, api_vars, crud_vars>>

----------------------------------------------------------------------------
(* Bounds *)

MaxDocs == 1        \* the retriever returns no document or MaxDocs documents
MaxItems == 3       \* a list field of the synthesized JSON has up to MaxItems items
MaxQuestions == 4   \* the clarification JSON array has 0..MaxQuestions items
NumRuns == 2        \* invocations of the entry point running concurrently
MaxClock == 1       \* the clock is read (an attachment created or updated) at most MaxClock times
MaxFileId == 3      \* requests name a file_id in 0..MaxFileId

----------------------------------------------------------------------------
(* JSON values, as json.loads builds them *)

JNull == [t |-> "null"]
JStr(s) == [t |-> "str", s |-> s]
JNum(n) == [t |-> "num", n |-> n]
JList(xs) == [t |-> "list", xs |-> xs]
JObj(f) == [t |-> "obj", f |-> f]

EmptyDict == JObj(<<>>)
EmptyList == JList(<<>>)

\* isinstance(v, list), isinstance(v, dict)
IsList(v) == v.t = "list"
IsDict(v) == v.t = "obj"

\* Python truth value of a JSON value
Truthy(v) ==
    CASE v.t = "null" -> FALSE
      [] v.t = "str"  -> v.s # ""
      [] v.t = "num"  -> v.n # 0
      [] v.t = "list" -> Len(v.xs) > 0
      [] v.t = "obj"  -> DOMAIN v.f # {}

\* str(v) for the scalars the model draws
PyStr(v) ==
    CASE v.t = "null" -> "None"
      [] v.t = "str"  -> v.s
      [] v.t = "num"  -> ToString(v.n)
      [] v.t = "list" -> "[...]"
      [] v.t = "obj"  -> "{...}"

\* the text of a completion that is not JSON
NotJson == [t |-> "text"]

\* json.loads: raises on text that is not JSON, else returns the value
json_loads(content) ==
    IF content.t = "text"
    THEN [ok |-> FALSE, err |-> "Expecting value: line 1 column 1 (char 0)"]
    ELSE [ok |-> TRUE, v |-> content]

\* outcome of one call of a collaborator
Raise(e) == [t |-> "raise", e |-> e]
Return(v) == [t |-> "return", v |-> v]

----------------------------------------------------------------------------
(* What the collaborators may answer *)

ErrorTexts == {"Request timed out.", ""}
Failures == {Raise(e) : e \in ErrorTexts}

Docs == [i \in 1..MaxDocs |-> "doc"]
RetrievalOutcomes ==
    {Raise("index unavailable")} \cup {Return(SubSeq(Docs, 1, n)) : n \in {0, MaxDocs}}

IntentFields ==
    {"product_type", "purpose", "target_users", "features",
     "technical_requirements", "business_objectives"}

FullIntent ==
    JObj([k \in IntentFields |->
            IF k \in {"product_type", "purpose"} THEN JStr("notes") ELSE JList(<<"sync">>)])
PartialIntent == JObj([k \in {"product_type"} |-> JStr("notes")])

AnalysisContents == {NotJson, FullIntent, PartialIntent, JList(<<"sync">>)}
AnalysisOutcomes == Failures \cup {Return(c) : c \in AnalysisContents}

PrdFields == {"title", "overview", "objectives", "features", "requirements", "userStories"}
ListFields == <<"objectives", "features", "requirements", "userStories">>

ModelItems == [i \in 1..MaxItems |-> "model item"]
Absent == [t |-> "absent"]
TitleInputs == {Absent, JStr(""), JStr("Notes")}
OverviewInputs == {Absent, JStr("A note-taking app.")}
\* an empty list, a list below every minimum, and the longest list
ListLengths == {0, 1, MaxItems}
ListInputs ==
    {Absent, JNull, JStr("one item")} \cup {JList(SubSeq(ModelItems, 1, n)) : n \in ListLengths}

MkObj(c) == JObj([k \in {k \in DOMAIN c : c[k] # Absent} |-> c[k]])

PrdObjects ==
    {MkObj(c) : c \in [title : TitleInputs, overview : OverviewInputs,
                       objectives : ListInputs, features : ListInputs,
                       requirements : ListInputs, userStories : ListInputs]}

PrdContents == {NotJson, JList(<<"Notes">>), JStr("Notes")} \cup PrdObjects
PrdOutcomes == Failures \cup {Return(c) : c \in PrdContents}

ModelQuestions == [i \in 1..MaxQuestions |-> "Question?"]
QuestionContents ==
    {NotJson, JObj([k \in {"questions"} |-> JList(<<"Question?">>)]), JStr("Question?")}
    \cup {JList(SubSeq(ModelQuestions, 1, n)) : n \in 0..MaxQuestions}
QuestionOutcomes == {Raise("Request timed out.")} \cup {Return(c) : c \in QuestionContents}

----------------------------------------------------------------------------
(* The repair pass of prd_generator_agent *)

DefaultTitle == JStr("Product Requirements Document")
DefaultOverview == JStr("Product overview will be generated from your input.")

\* the canned items substituted for an empty list field
CannedItems(field) ==
    CASE field = "objectives" ->
            <<"Define clear business goals", "Identify target market",
              "Establish success metrics">>
      [] field = "features" ->
            <<"Core functionality", "User interface", "Data management",
              "User authentication">>
      [] field = "requirements" ->
            <<"Web-based application", "Mobile responsive design",
              "Secure data storage">>
      [] field = "userStories" ->
            <<"As a user, I want to access the application, so that I can use its features",
              "As a user, I want to save my data, so that I can access it later">>

\* dict.setdefault(k, d) on the dictionary f
setdefault(f, k, d) ==
    IF k \in DOMAIN f THEN f
    ELSE [x \in DOMAIN f \cup {k} |-> IF x = k THEN d ELSE f[x]]

\* every non-list value is wrapped, the falsy ones too
coerce_list_wraps_falsy(v) ==
    IF IsList(v) THEN v ELSE JList(<<PyStr(v)>>)

\* "Ensure arrays are actually arrays"
coerce_list(v) ==
    IF IsList(v) THEN v
    ELSE IF Truthy(v) THEN JList(<<PyStr(v)>>) ELSE EmptyList

\* the canned items appended without looking at the length
ensure_minimum_always_pads(field, v) == JList(v.xs \o CannedItems(field))

\* "Ensure minimum number of items"
ensure_minimum(field, v) ==
    IF Len(v.xs) = 0 THEN JList(CannedItems(field)) ELSE v

repair_field(field, v) == ensure_minimum(field, coerce_list(v))

with_defaults(f) ==
    setdefault(setdefault(setdefault(setdefault(setdefault(setdefault(f,
        "title", DefaultTitle),
        "overview", DefaultOverview),
        "objectives", EmptyList),
        "features", EmptyList),
        "requirements", EmptyList),
        "userStories", EmptyList)

repair_pass(f) ==
    LET g == with_defaults(f)
        IsListField(k) == \E i \in 1..Len(ListFields) : ListFields[i] = k
    IN  [k \in DOMAIN g |-> IF IsListField(k) THEN repair_field(k, g[k]) ELSE g[k]]

----------------------------------------------------------------------------
(* The three agents, as functions of the state and of the collaborator's answer *)

\* a slip in the except block: the failure is recorded under the success stage
analysis_failed_wrong_stage(st, e) ==
    [st EXCEPT !.error_message = "Analysis failed: " \o e,
               !.processing_stage = "analyzed"]

\* the message is the bare text of the exception, which may be empty
analysis_failed_bare_message(st, e) ==
    [st EXCEPT !.error_message = e,
               !.processing_stage = "error"]

analysis_failed(st, e) ==
    [st EXCEPT !.error_message = "Analysis failed: " \o e,
               !.processing_stage = "error"]

\* an agent that treats an empty retrieval result as a failure
AnalyzeInput_rejects_empty_context(st, docs, out) ==
    LET s1 == [st EXCEPT !.retrieved_context = docs]
    IN  IF docs = <<>> \/ out.t = "raise" \/ out.v.t = "text"
        THEN [s1 EXCEPT !.error_message = "Analysis failed: no context",
                        !.processing_stage = "error"]
        ELSE [s1 EXCEPT !.analysis_result = out.v,
                        !.processing_stage = "analyzed"]

AnalyzeInput(st, docs, out) ==
    LET s1 == [st EXCEPT !.retrieved_context = docs]
    IN  IF out.t = "raise" THEN analysis_failed(s1, out.e)
        ELSE LET parsed == json_loads(out.v)
             IN  IF ~parsed.ok THEN analysis_failed(s1, parsed.err)
                 ELSE [s1 EXCEPT !.analysis_result = parsed.v,
                                 !.processing_stage = "analyzed"]

\* a fallback that fabricates a document when synthesis fails
generation_failed_fabricates(st, e) ==
    [st EXCEPT !.error_message = "PRD generation failed: " \o e,
               !.processing_stage = "error",
               !.prd_content = JObj([k \in PrdFields |->
                    CASE k = "title" -> JStr("Product Requirements Document")
                      [] k = "overview" -> JStr("Product overview will be generated from your input.")
                      [] OTHER -> JList(<<"Core functionality">>)])]

\* a failure handler that rewinds the stage for another attempt
generation_failed_rewinds(st, e) ==
    [st EXCEPT !.error_message = "PRD generation failed: " \o e,
               !.processing_stage = "starting"]

\* a failure handler that also resets what the earlier stage produced
generation_failed_clears_analysis(st, e) ==
    [st EXCEPT !.error_message = "PRD generation failed: " \o e,
               !.processing_stage = "error",
               !.analysis_result = EmptyDict]

generation_failed(st, e) ==
    [st EXCEPT !.error_message = "PRD generation failed: " \o e,
               !.processing_stage = "error"]

GeneratePrd(st, out) ==
    IF out.t = "raise" THEN generation_failed(st, out.e)
    ELSE LET parsed == json_loads(out.v)
         IN  IF ~parsed.ok THEN generation_failed(st, parsed.err)
             ELSE IF ~IsDict(parsed.v)
                  THEN generation_failed(st, "object has no attribute 'setdefault'")
                  ELSE [st EXCEPT !.prd_content = JObj(repair_pass(parsed.v.f)),
                                  !.processing_stage = "generated"]

DefaultQuestions ==
    JList(<<"Could you provide more details about your target users?",
            "What are the most important features for your users?">>)

\* a handler that reports the failure the way the other two agents do
questions_failed_as_error(st) ==
    [st EXCEPT !.clarifying_questions = DefaultQuestions,
               !.error_message = "Question generation failed",
               !.processing_stage = "error"]

\* the bare except of clarification_agent
questions_failed(st) == [st EXCEPT !.clarifying_questions = DefaultQuestions]

\* an agent that marks its own stage when it is done
GenerateQuestions_marks_stage(st, out) ==
    IF out.t = "raise" \/ out.v.t = "text"
    THEN [st EXCEPT !.clarifying_questions = DefaultQuestions,
                    !.processing_stage = "questions_ready"]
    ELSE [st EXCEPT !.clarifying_questions = out.v,
                    !.processing_stage = "questions_ready"]

GenerateQuestions(st, out) ==
    IF out.t = "raise" THEN questions_failed(st)
    ELSE LET parsed == json_loads(out.v)
         IN  IF ~parsed.ok THEN questions_failed(st)
             ELSE [st EXCEPT !.clarifying_questions = parsed.v]

----------------------------------------------------------------------------
(* The graph and the entry point *)

\* a router that ends the workflow as soon as the analysis is done
determine_next_step_stops_after_analysis(st) ==
    IF st.processing_stage = "generated" THEN "generate_questions" ELSE "end"

determine_next_step(st) ==
    IF st.processing_stage = "analyzed" THEN "generate_prd"
    ELSE IF st.processing_stage = "generated" THEN "generate_questions"
    ELSE "end"

\* the "end" key of generate_prd wired to the next node instead of END
Edge_end_miswired(node, key) ==
    CASE node = "analyze_input" /\ key = "generate_prd" -> "generate_prd"
      [] node = "generate_prd" /\ key = "generate_questions" -> "generate_questions"
      [] node = "generate_prd" /\ key = "end" -> "generate_questions"
      [] key = "end" -> "END"

\* the "end" key of analyze_input wired back to the node, as a retry
Edge_retries_analysis(node, key) ==
    CASE node = "analyze_input" /\ key = "generate_prd" -> "generate_prd"
      [] node = "generate_prd" /\ key = "generate_questions" -> "generate_questions"
      [] node = "analyze_input" /\ key = "end" -> "analyze_input"
      [] key = "end" -> "END"

\* the conditional edges of create_prd_rag_graph
Edge(node, key) ==
    CASE node = "analyze_input" /\ key = "generate_prd" -> "generate_prd"
      [] node = "generate_prd" /\ key = "generate_questions" -> "generate_questions"
      [] key = "end" -> "END"

initial_state ==
    [retrieved_context |-> <<>>,
     analysis_result |-> EmptyDict,
     prd_content |-> EmptyDict,
     clarifying_questions |-> EmptyList,
     processing_stage |-> "starting",
     error_message |-> ""]

\* a test that forgets the error stage
success_ignores_error(result) == result.processing_stage \notin {"starting"}

success(result) == result.processing_stage \notin {"error", "starting"}

result_envelope(result) ==
    [success |-> success(result),
     prd_content |-> result.prd_content,
     clarifying_questions |-> result.clarifying_questions,
     analysis |-> result.analysis_result,
     error_message |-> result.error_message,
     processing_stage |-> result.processing_stage]

Call(name, out) == [name |-> name, outcome |-> out]

Runs == 1..NumRuns

\* an invocation that has not been made yet
idle_run == [pc |-> "idle", ref |-> 0, envelope |-> <<>>, calls |-> <<>>]

\* process_user_input_for_prd has built initial_state and entered the graph
InitPipeline ==
    /\ pc = "analyze_input"
    /\ state = initial_state
    /\ envelope = <<>>
    /\ calls = <<>>
    /\ stage_history = <<"starting">>
    /\ heap = <<>>
    /\ runs = [r \in Runs |-> idle_run]

\* the repair pass is not exercised on its own
RepairIdle ==
    /\ raw_prd = <<>>
    /\ repaired_prd = <<>>

\* no request has reached /api/process-prd
ApiIdle ==
    /\ RAG_SYSTEM_AVAILABLE = TRUE
    /\ responses = [r \in Runs |-> <<>>]

\* the value of last before the first request
no_request ==
    [method |-> "none", file_id |-> 0, body |-> <<>>,
     response |-> [status |-> 0, detail |-> "", body |-> <<>>]]

\* the file-attachment endpoints are not serving
CrudIdle ==
    /\ backend = "none"
    /\ file_attachments_db = <<>>
    /\ file_attachment_id_counter = 1
    /\ now = 0
    /\ issued = {}
    /\ posted = <<>>
    /\ last = no_request

Init ==
    /\ InitPipeline
    /\ RepairIdle
    /\ ApiIdle
    /\ CrudIdle

\* node analyze_input; a retriever error is not caught and leaves the graph
input_analyzer_agent ==
    /\ pc = "analyze_input"
    /\ \E r \in RetrievalOutcomes :
        IF r.t = "raise"
        THEN /\ pc' = "raised"
             /\ calls' = Append(calls, Call("retrieve", r))
             /\ UNCHANGED <<state, envelope, stage_history, heap, runs, repair_vars, api_vars, crud_vars>>
        ELSE \E a \in AnalysisOutcomes :
             LET st == AnalyzeInput(state, r.v, a)
             IN  /\ state' = st
                 /\ pc' = Edge("analyze_input", determine_next_step(st))
                 /\ calls' = calls \o <<Call("retrieve", r), Call("analysis", a)>>
                 /\ stage_history' = Append(stage_history, st.processing_stage)
                 /\ UNCHANGED <<envelope, heap, runs, repair_vars, api_vars, crud_vars>>

\* node generate_prd
prd_generator_agent ==
    /\ pc = "generate_prd"
    /\ \E p \in PrdOutcomes :
        LET st == GeneratePrd(state, p)
        IN  /\ state' = st
            /\ pc' = Edge("generate_prd", determine_next_step(st))
            /\ calls' = Append(calls, Call("prd", p))
            /\ stage_history' = Append(stage_history, st.processing_stage)
            /\ UNCHANGED <<envelope, heap, runs, repair_vars, api_vars, crud_vars>>

\* node generate_questions, followed by the edge to END
clarification_agent ==
    /\ pc = "generate_questions"
    /\ \E q \in QuestionOutcomes :
        LET st == GenerateQuestions(state, q)
        IN  /\ state' = st
            /\ pc' = "END"
            /\ calls' = Append(calls, Call("questions", q))
            /\ stage_history' =
                  IF st.processing_stage = state.processing_stage THEN stage_history
                  ELSE Append(stage_history, st.processing_stage)
            /\ UNCHANGED <<envelope, heap, runs, repair_vars, api_vars, crud_vars>>

\* the graph has ended: process_user_input_for_prd returns the envelope
process_user_input_for_prd ==
    /\ pc = "END"
    /\ envelope' = <<result_envelope(state)>>
    /\ pc' = "returned"
    /\ UNCHANGED <<state, calls, stage_history, heap, runs, repair_vars, api_vars, crud_vars>>

Next ==
    \/ input_analyzer_agent
    \/ prd_generator_agent
    \/ clarification_agent
    \/ process_user_input_for_prd

Spec == Init /\ [][Next]_vars

----------------------------------------------------------------------------
(* Concurrent invocations of the entry point.  Each invocation runs the     *)
(* same graph on the dictionary it created; its steps interleave freely     *)
(* with the steps of the others.                                            *)

ShortPrd ==
    JObj([k \in {"title", "requirements"} |->
            IF k = "title" THEN JStr("Notes") ELSE JList(<<"model item">>)])

ConcurrentRetrievals == {Raise("index unavailable"), Return(Docs)}
ConcurrentAnalyses ==
    {Raise("Request timed out."), Return(FullIntent), Return(PartialIntent)}
ConcurrentPrds == {Raise("Request timed out."), Return(ShortPrd)}
ConcurrentQuestions ==
    {Return(NotJson), Return(JList(<<"Question?", "Question?">>)), Return(JStr("Question?"))}

\* one dictionary kept at module level and handed to every invocation
allocate_shared(h) == 1

\* the dictionary display of process_user_input_for_prd makes a new object
allocate(h) == Len(h) + 1

single_run_unchanged ==
    UNCHANGED <<pc, state, envelope, calls, stage_history, repair_vars, api_vars, crud_vars>>

\* process_user_input_for_prd builds initial_state and enters the graph
invoke(r) ==
    /\ runs[r].pc = "idle"
    /\ LET a == allocate(heap)
       IN  /\ heap' = IF a \in DOMAIN heap THEN heap ELSE Append(heap, initial_state)
           /\ runs' = [runs EXCEPT ![r].pc = "analyze_input", ![r].ref = a]
    /\ single_run_unchanged

analyze_input(r) ==
    /\ runs[r].pc = "analyze_input"
    /\ \E ret \in ConcurrentRetrievals :
        IF ret.t = "raise"
        THEN /\ runs' = [runs EXCEPT ![r].pc = "raised",
                                     ![r].calls = Append(@, Call("retrieve", ret))]
             /\ UNCHANGED heap
        ELSE \E a \in ConcurrentAnalyses :
             LET st == AnalyzeInput(heap[runs[r].ref], ret.v, a)
             IN  /\ heap' = [heap EXCEPT ![runs[r].ref] = st]
                 /\ runs' = [runs EXCEPT
                        ![r].pc = Edge("analyze_input", determine_next_step(st)),
                        ![r].calls = @ \o <<Call("retrieve", ret), Call("analysis", a)>>]
    /\ single_run_unchanged

generate_prd(r) ==
    /\ runs[r].pc = "generate_prd"
    /\ \E p \in ConcurrentPrds :
        LET st == GeneratePrd(heap[runs[r].ref], p)
        IN  /\ heap' = [heap EXCEPT ![runs[r].ref] = st]
            /\ runs' = [runs EXCEPT
                   ![r].pc = Edge("generate_prd", determine_next_step(st)),
                   ![r].calls = Append(@, Call("prd", p))]
    /\ single_run_unchanged

generate_questions(r) ==
    /\ runs[r].pc = "generate_questions"
    /\ \E q \in ConcurrentQuestions :
        LET st == GenerateQuestions(heap[runs[r].ref], q)
        IN  /\ heap' = [heap EXCEPT ![runs[r].ref] = st]
            /\ runs' = [runs EXCEPT ![r].pc = "END",
                                    ![r].calls = Append(@, Call("questions", q))]
    /\ single_run_unchanged

return_envelope(r) ==
    /\ runs[r].pc = "END"
    /\ runs' = [runs EXCEPT ![r].pc = "returned",
                            ![r].envelope = <<result_envelope(heap[runs[r].ref])>>]
    /\ UNCHANGED heap
    /\ single_run_unchanged

NextConcurrent ==
    \E r \in Runs :
        \/ invoke(r)
        \/ analyze_input(r)
        \/ generate_prd(r)
        \/ generate_questions(r)
        \/ return_envelope(r)

SpecConcurrent == Init /\ [][NextConcurrent]_vars

----------------------------------------------------------------------------
(* The repair pass of prd_generator_agent on its own, applied to the JSON   *)
(* objects json.loads can return for the synthesis completion.              *)

\* what a list field of the parsed object can hold: nothing, null, strings,
\* numbers, objects and lists
FieldValues ==
    {Absent, JNull, JStr(""), JStr("one item"), JNum(0), JNum(7),
     EmptyDict, JObj([note |-> JStr("later")])}
        \cup {JList(SubSeq(ModelItems, 1, n)) : n \in ListLengths}

RepairInputs ==
    {MkObj(c).f : c \in [title : {JStr("Notes")}, overview : OverviewInputs,
                         objectives : FieldValues, features : FieldValues,
                         requirements : FieldValues, userStories : FieldValues]}

\* lines 167-188 applied to the parsed object
run_repair_pass ==
    /\ repaired_prd = <<>>
    /\ repaired_prd' = <<repair_pass(raw_prd)>>
    /\ UNCHANGED <<pc, state, envelope, calls, stage_history, heap, runs,
                   raw_prd, api_vars, crud_vars>>

InitRepair ==
    /\ InitPipeline
    /\ ApiIdle
    /\ CrudIdle
    /\ raw_prd \in RepairInputs
    /\ repaired_prd = <<>>

NextRepair == run_repair_pass

SpecRepair == InitRepair /\ [][NextRepair]_vars

----------------------------------------------------------------------------
(* The endpoint POST /api/process-prd of main.py.  Each request is one      *)
(* invocation of the entry point; requests served by different workers      *)
(* interleave.                                                              *)

HttpResponse(code, detail, body) == [status |-> code, detail |-> detail, body |-> body]

\* PRDResponse(**result): pydantic accepts the envelope or raises
PRDResponse_validates(env) ==
    /\ IsDict(env.prd_content)
    /\ IsList(env.clarifying_questions)
    /\ IsDict(env.analysis)

\* the response built in the except block
processing_failed(e) ==
    HttpResponse(200, "",
        [success |-> FALSE,
         prd_content |-> EmptyDict,
         clarifying_questions |-> EmptyList,
         analysis |-> EmptyDict,
         error_message |-> "Processing failed: " \o e,
         processing_stage |-> "error"])

\* a handler whose except block lets the exception through
process_prd_response_reraises(run) ==
    IF run.pc = "raised"
    THEN HttpResponse(500, "Internal Server Error", <<>>)
    ELSE IF ~PRDResponse_validates(run.envelope[1])
         THEN processing_failed("validation error for PRDResponse")
         ELSE HttpResponse(200, "", run.envelope[1])

\* the try block of process_prd_input, once the entry point has returned or raised
process_prd_response(run) ==
    IF run.pc = "raised"
    THEN processing_failed(run.calls[Len(run.calls)].outcome.e)
    ELSE IF ~PRDResponse_validates(run.envelope[1])
         THEN processing_failed("validation error for PRDResponse")
         ELSE HttpResponse(200, "", run.envelope[1])

\* a request arrives: 503 when the RAG system is missing, else the entry point is called
process_prd_input(r) ==
    /\ runs[r].pc = "idle"
    /\ responses[r] = <<>>
    /\ IF ~RAG_SYSTEM_AVAILABLE
       THEN /\ responses' = [responses EXCEPT ![r] =
                    <<HttpResponse(503,
                        "RAG system is not available. Please check server configuration.",
                        <<>>)>>]
            /\ UNCHANGED <<pc, state, envelope, calls, stage_history, heap, runs,
                           repair_vars, RAG_SYSTEM_AVAILABLE, crud_vars>>
       ELSE invoke(r)

\* the entry point has returned or raised: the handler sends its response
process_prd_input_responds(r) ==
    /\ RAG_SYSTEM_AVAILABLE
    /\ runs[r].pc \in {"returned", "raised"}
    /\ responses[r] = <<>>
    /\ responses' = [responses EXCEPT ![r] = <<process_prd_response(runs[r])>>]
    /\ UNCHANGED <<pc, state, envelope, calls, stage_history, heap, runs,
                   repair_vars, RAG_SYSTEM_AVAILABLE, crud_vars>>

InitApi ==
    /\ InitPipeline
    /\ RepairIdle
    /\ CrudIdle
    /\ RAG_SYSTEM_AVAILABLE \in BOOLEAN
    /\ responses = [r \in Runs |-> <<>>]

NextApi ==
    \E r \in Runs :
        \/ process_prd_input(r)
        \/ analyze_input(r)
        \/ generate_prd(r)
        \/ generate_questions(r)
        \/ return_envelope(r)
        \/ process_prd_input_responds(r)

SpecApi == InitApi /\ [][NextApi]_vars

----------------------------------------------------------------------------
(* The file-attachment endpoints, served by main.py over the table          *)
(* file_attachment and by main_in_memory.py over the list                   *)
(* file_attachments_db.  Request bodies are the bodies that pass pydantic   *)
(* validation; the database session is taken to succeed, so the branches    *)
(* that answer 500 after SQLAlchemyError are not taken.                     *)

\* Python's None in a column
None == "<None>"

RequiredFields ==
    {"conversation_id", "original_filename", "file_type", "file_size", "storage_path"}

\* the last field of FileAttachmentBase is named differently in the two modules
MetadataField(b) == IF b = "main" THEN "additional_metadata" ELSE "metadata"

PayloadFields(b) == RequiredFields \cup {"extracted_text", "status", MetadataField(b)}

\* a request body that sets every field
FullPayload(b) ==
    [k \in PayloadFields(b) |->
        CASE k = "conversation_id" -> 1
          [] k = "original_filename" -> "spec.md"
          [] k = "file_type" -> "md"
          [] k = "file_size" -> 15360
          [] k = "storage_path" -> "/uploads/spec.md"
          [] k = "extracted_text" -> "# Spec"
          [] k = "status" -> "processed"
          [] OTHER -> "{\"author\": \"Alice\"}"]

\* a request body that sets the required fields, and an id the models do not declare
MinimalPayload ==
    [k \in RequiredFields \cup {"id"} |->
        CASE k = "conversation_id" -> 1
          [] k = "original_filename" -> "notes.txt"
          [] k = "file_type" -> "txt"
          [] k = "file_size" -> 2048
          [] k = "storage_path" -> "/uploads/notes.txt"
          [] OTHER -> 99]

CreatePayloads(b) == {FullPayload(b), MinimalPayload}
PutPayloads(b) == {FullPayload(b)}

\* bodies of PATCH: empty, two fields, a null, one field with an undeclared key
PatchBodies(b) ==
    { <<>>,
      [k \in {"status", MetadataField(b)} |->
          IF k = "status" THEN "failed" ELSE "{\"reviewed\": true}"],
      [k \in {"extracted_text"} |-> None],
      [k \in {"id", "original_filename"} |-> IF k = "id" THEN 99 ELSE "renamed.md"] }

FileIds == 0..MaxFileId

\* FileAttachmentCreate(...).model_dump(): declared fields only, defaults for the unset ones
model_dump(body, b) ==
    [k \in PayloadFields(b) |->
        IF k \in DOMAIN body THEN body[k]
        ELSE IF k = "status" THEN "uploaded" ELSE None]

\* FileAttachmentUpdate(...).model_dump(exclude_unset=True): the declared fields the body sets
model_dump_exclude_unset(body, b) ==
    [k \in DOMAIN body \cap PayloadFields(b) |-> body[k]]

\* a stored attachment: id, the dumped fields and the two timestamps
new_attachment(id, data, t) ==
    [k \in DOMAIN data \cup {"id", "created_at", "updated_at"} |->
        CASE k = "id" -> id
          [] k \in {"created_at", "updated_at"} -> t
          [] OTHER -> data[k]]

\* the module-level list of main_in_memory.py
SeededAttachments ==
    << [new_attachment(1,
            [k \in PayloadFields("in_memory") |->
                CASE k = "conversation_id" -> 1
                  [] k = "original_filename" -> "requirements.txt"
                  [] k = "file_type" -> "txt"
                  [] k = "file_size" -> 2048
                  [] k = "storage_path" -> "/uploads/conv_1/requirements_20251105_120000.txt"
                  [] k = "extracted_text" -> "User should be able to upload files"
                  [] k = "status" -> "processed"
                  [] OTHER -> "{\"upload_source\": \"web_ui\"}"], -6)
            EXCEPT !.updated_at = -5],
       [new_attachment(2,
            [k \in PayloadFields("in_memory") |->
                CASE k = "conversation_id" -> 1
                  [] k = "original_filename" -> "product_spec.md"
                  [] k = "file_type" -> "md"
                  [] k = "file_size" -> 15360
                  [] k = "storage_path" -> "/uploads/conv_1/product_spec_20251105_130000.md"
                  [] k = "extracted_text" -> "# Product Specification"
                  [] k = "status" -> "processed"
                  [] OTHER -> "{\"upload_source\": \"api\"}"], -4)
            EXCEPT !.updated_at = -3],
       new_attachment(3,
            [k \in PayloadFields("in_memory") |->
                CASE k = "conversation_id" -> 2
                  [] k = "original_filename" -> "initial_notes.docx"
                  [] k = "file_type" -> "docx"
                  [] k = "file_size" -> 45056
                  [] k = "storage_path" -> "/uploads/conv_2/initial_notes_20251105_140000.docx"
                  [] k = "extracted_text" -> None
                  [] k = "status" -> "processing"
                  [] OTHER -> None], -2) >>

Ids(db) == {db[i].id : i \in 1..Len(db)}

\* position of the first row with this id, 0 when there is none
find_file_attachment_by_id(db, file_id) ==
    IF file_id \in Ids(db)
    THEN CHOOSE i \in 1..Len(db) :
            /\ db[i].id = file_id
            /\ \A j \in 1..(i - 1) : db[j].id # file_id
    ELSE 0

RemoveAt(db, i) == SubSeq(db, 1, i - 1) \o SubSeq(db, i + 1, Len(db))

\* list.remove(x): drops the first element equal to x
list_remove(db, x) ==
    RemoveAt(db, CHOOSE i \in 1..Len(db) : db[i] = x /\ \A j \in 1..(i - 1) : db[j] # x)

\* INTEGER PRIMARY KEY of SQLite: one more than the largest id in the table
autoincrement(db) ==
    IF db = <<>> THEN 1
    ELSE (CHOOSE m \in Ids(db) : \A x \in Ids(db) : x <= m) + 1

\* setattr(attachment, key, value) for every item, or dict.update(data)
set_fields(row, data) ==
    [k \in DOMAIN row \cup DOMAIN data |-> IF k \in DOMAIN data THEN data[k] ELSE row[k]]

\* db.commit(): the UPDATE is emitted, and onupdate fires, only for a modified row
commit_update(old, new, t) ==
    IF new = old THEN old ELSE [new EXCEPT !.updated_at = t]

\* what a handler does: the rows it leaves, its response, whether it read the clock
Handled(db, response, tick) == [db |-> db, response |-> response, tick |-> tick]

invalid_file_id == HttpResponse(400, "File ID must be a positive integer", <<>>)
not_found(file_id) ==
    HttpResponse(404, "File attachment with ID " \o ToString(file_id) \o " not found", <<>>)
not_found_in_memory(file_id) ==
    HttpResponse(404, "File attachment with id " \o ToString(file_id) \o " not found", <<>>)
no_fields == HttpResponse(400, "No fields provided for update", <<>>)

(* main.py *)

\* a handler that stores the required fields and forgets the optional ones
create_file_attachment_drops_optional(db, payload, t) ==
    LET data == model_dump([k \in DOMAIN payload \cap RequiredFields |-> payload[k]], "main")
        row == new_attachment(autoincrement(db), data, t)
    IN  Handled(Append(db, row), HttpResponse(201, "", row), TRUE)

create_file_attachment(db, payload, t) ==
    LET row == new_attachment(autoincrement(db), model_dump(payload, "main"), t)
    IN  Handled(Append(db, row), HttpResponse(201, "", row), TRUE)

\* a handler that goes to the table without looking at the sign of file_id
get_file_attachment_without_id_check(db, file_id) ==
    LET i == find_file_attachment_by_id(db, file_id)
    IN  IF i = 0 THEN Handled(db, not_found(file_id), FALSE)
        ELSE Handled(db, HttpResponse(200, "", db[i]), FALSE)

get_file_attachment(db, file_id) ==
    IF file_id < 1 THEN Handled(db, invalid_file_id, FALSE)
    ELSE LET i == find_file_attachment_by_id(db, file_id)
         IN  IF i = 0 THEN Handled(db, not_found(file_id), FALSE)
             ELSE Handled(db, HttpResponse(200, "", db[i]), FALSE)

update_file_attachment(db, file_id, payload, t) ==
    IF file_id < 1 THEN Handled(db, invalid_file_id, FALSE)
    ELSE LET i == find_file_attachment_by_id(db, file_id)
         IN  IF i = 0 THEN Handled(db, not_found(file_id), FALSE)
             ELSE LET row == commit_update(db[i],
                                set_fields(db[i], model_dump(payload, "main")), t)
                  IN  Handled([db EXCEPT ![i] = row], HttpResponse(200, "", row),
                              row # db[i])

\* the body is examined before the row is looked up
partial_update_file_attachment_checks_body_first(db, file_id, body, t) ==
    IF file_id < 1 THEN Handled(db, invalid_file_id, FALSE)
    ELSE LET i == find_file_attachment_by_id(db, file_id)
             update_data == model_dump_exclude_unset(body, "main")
         IN  IF DOMAIN update_data = {} THEN Handled(db, no_fields, FALSE)
             ELSE IF i = 0 THEN Handled(db, not_found(file_id), FALSE)
             ELSE LET row == commit_update(db[i], set_fields(db[i], update_data), t)
                  IN  Handled([db EXCEPT ![i] = row], HttpResponse(200, "", row),
                              row # db[i])

\* an empty body is accepted and the row is stamped
partial_update_file_attachment_accepts_empty(db, file_id, body, t) ==
    IF file_id < 1 THEN Handled(db, invalid_file_id, FALSE)
    ELSE LET i == find_file_attachment_by_id(db, file_id)
             update_data == model_dump_exclude_unset(body, "main")
         IN  IF i = 0 THEN Handled(db, not_found(file_id), FALSE)
             ELSE LET row == [set_fields(db[i], update_data) EXCEPT !.updated_at = t]
                  IN  Handled([db EXCEPT ![i] = row], HttpResponse(200, "", row), TRUE)

partial_update_file_attachment(db, file_id, body, t) ==
    IF file_id < 1 THEN Handled(db, invalid_file_id, FALSE)
    ELSE LET i == find_file_attachment_by_id(db, file_id)
             update_data == model_dump_exclude_unset(body, "main")
         IN  IF i = 0 THEN Handled(db, not_found(file_id), FALSE)
             ELSE IF DOMAIN update_data = {} THEN Handled(db, no_fields, FALSE)
             ELSE LET row == commit_update(db[i], set_fields(db[i], update_data), t)
                  IN  Handled([db EXCEPT ![i] = row], HttpResponse(200, "", row),
                              row # db[i])

delete_file_attachment(db, file_id) ==
    IF file_id < 1 THEN Handled(db, invalid_file_id, FALSE)
    ELSE LET i == find_file_attachment_by_id(db, file_id)
         IN  IF i = 0 THEN Handled(db, not_found(file_id), FALSE)
             ELSE Handled(RemoveAt(db, i), HttpResponse(204, "", <<>>), FALSE)

(* main_in_memory.py *)

generate_id(counter) == [new_id |-> counter, counter |-> counter + 1]

\* the new attachment is numbered by the length of the list
create_file_attachment_in_memory_numbers_by_length(db, counter, payload, t) ==
    LET row == new_attachment(Len(db) + 1, model_dump(payload, "in_memory"), t)
    IN  Handled(Append(db, row), HttpResponse(201, "", row), TRUE)

create_file_attachment_in_memory(db, counter, payload, t) ==
    LET row == new_attachment(generate_id(counter).new_id, model_dump(payload, "in_memory"), t)
    IN  Handled(Append(db, row), HttpResponse(201, "", row), TRUE)

get_file_attachment_in_memory(db, file_id) ==
    LET i == find_file_attachment_by_id(db, file_id)
    IN  IF i = 0 THEN Handled(db, not_found_in_memory(file_id), FALSE)
        ELSE Handled(db, HttpResponse(200, "", db[i]), FALSE)

update_file_attachment_in_memory(db, file_id, payload, t) ==
    LET i == find_file_attachment_by_id(db, file_id)
    IN  IF i = 0 THEN Handled(db, not_found_in_memory(file_id), FALSE)
        ELSE LET row == [set_fields(db[i], model_dump(payload, "in_memory"))
                            EXCEPT !.updated_at = t]
             IN  Handled([db EXCEPT ![i] = row], HttpResponse(200, "", row), TRUE)

\* the update is built with model_dump(): the unset fields are overwritten with None
partial_update_file_attachment_in_memory_dumps_all(db, file_id, body, t) ==
    LET i == find_file_attachment_by_id(db, file_id)
        update_data == [k \in PayloadFields("in_memory") |->
                            IF k \in DOMAIN body THEN body[k] ELSE None]
    IN  IF i = 0 THEN Handled(db, not_found_in_memory(file_id), FALSE)
        ELSE LET row == [set_fields(db[i], update_data) EXCEPT !.updated_at = t]
             IN  Handled([db EXCEPT ![i] = row], HttpResponse(200, "", row), TRUE)

partial_update_file_attachment_in_memory(db, file_id, body, t) ==
    LET i == find_file_attachment_by_id(db, file_id)
        update_data == model_dump_exclude_unset(body, "in_memory")
    IN  IF i = 0 THEN Handled(db, not_found_in_memory(file_id), FALSE)
        ELSE IF DOMAIN update_data = {}
             THEN Handled(db, HttpResponse(200, "", db[i]), FALSE)
             ELSE LET row == [set_fields(db[i], update_data) EXCEPT !.updated_at = t]
                  IN  Handled([db EXCEPT ![i] = row], HttpResponse(200, "", row), TRUE)

delete_file_attachment_in_memory(db, file_id) ==
    LET i == find_file_attachment_by_id(db, file_id)
    IN  IF i = 0 THEN Handled(db, not_found_in_memory(file_id), FALSE)
        ELSE Handled(list_remove(db, db[i]), HttpResponse(204, "", <<>>), FALSE)

(* One request served *)

Without(f, x) == [k \in DOMAIN f \ {x} |-> f[k]]
With(f, x, v) == [k \in DOMAIN f \cup {x} |-> IF k = x THEN v ELSE f[k]]

Serve(method, file_id, body, res, counter) ==
    /\ res.tick => now < MaxClock
    /\ file_attachments_db' = res.db
    /\ file_attachment_id_counter' = counter
    /\ now' = IF res.tick THEN now + 1 ELSE now
    /\ last' = [method |-> method, file_id |-> file_id, body |-> body,
                response |-> res.response]
    /\ issued' = IF res.response.status = 201
                 THEN issued \cup {res.response.body.id} ELSE issued
    /\ posted' =
          CASE res.response.status = 201 ->
                  With(posted, res.response.body.id, res.response.body)
            [] method \in {"PUT", "PATCH", "DELETE"}
                 /\ res.response.status \in {200, 204} -> Without(posted, file_id)
            [] OTHER -> posted
    /\ UNCHANGED <<pc, state, envelope, calls, stage_history, heap, runs,
                   repair_vars, api_vars, backend>>

POST_main ==
    /\ backend = "main"
    /\ \E payload \in CreatePayloads("main") :
        Serve("POST", 0, payload,
              create_file_attachment(file_attachments_db, payload, now),
              file_attachment_id_counter)

GET_main ==
    /\ backend = "main"
    /\ \E file_id \in FileIds :
        Serve("GET", file_id, <<>>,
              get_file_attachment(file_attachments_db, file_id),
              file_attachment_id_counter)

PUT_main ==
    /\ backend = "main"
    /\ \E file_id \in FileIds, payload \in PutPayloads("main") :
        Serve("PUT", file_id, payload,
              update_file_attachment(file_attachments_db, file_id, payload, now),
              file_attachment_id_counter)

PATCH_main ==
    /\ backend = "main"
    /\ \E file_id \in FileIds, body \in PatchBodies("main") :
        Serve("PATCH", file_id, body,
              partial_update_file_attachment(file_attachments_db, file_id, body, now),
              file_attachment_id_counter)

DELETE_main ==
    /\ backend = "main"
    /\ \E file_id \in FileIds :
        Serve("DELETE", file_id, <<>>,
              delete_file_attachment(file_attachments_db, file_id),
              file_attachment_id_counter)

POST_in_memory ==
    /\ backend = "in_memory"
    /\ \E payload \in CreatePayloads("in_memory") :
        Serve("POST", 0, payload,
              create_file_attachment_in_memory(file_attachments_db,
                    file_attachment_id_counter, payload, now),
              generate_id(file_attachment_id_counter).counter)

GET_in_memory ==
    /\ backend = "in_memory"
    /\ \E file_id \in FileIds :
        Serve("GET", file_id, <<>>,
              get_file_attachment_in_memory(file_attachments_db, file_id),
              file_attachment_id_counter)

PUT_in_memory ==
    /\ backend = "in_memory"
    /\ \E file_id \in FileIds, payload \in PutPayloads("in_memory") :
        Serve("PUT", file_id, payload,
              update_file_attachment_in_memory(file_attachments_db, file_id, payload, now),
              file_attachment_id_counter)

PATCH_in_memory ==
    /\ backend = "in_memory"
    /\ \E file_id \in FileIds, body \in PatchBodies("in_memory") :
        Serve("PATCH", file_id, body,
              partial_update_file_attachment_in_memory(file_attachments_db, file_id, body, now),
              file_attachment_id_counter)

DELETE_in_memory ==
    /\ backend = "in_memory"
    /\ \E file_id \in FileIds :
        Serve("DELETE", file_id, <<>>,
              delete_file_attachment_in_memory(file_attachments_db, file_id),
              file_attachment_id_counter)

\* what the database file can hold when main.py starts: nothing, or an
\* attachment stored by an earlier run
StoredEarlier ==
    {<<>>, <<new_attachment(1, model_dump(MinimalPayload, "main"), -1)>>}

\* main.py starts on the table of its database file; main_in_memory.py on its
\* three seeded attachments
InitCrud ==
    /\ InitPipeline
    /\ RepairIdle
    /\ ApiIdle
    /\ backend \in {"main", "in_memory"}
    /\ file_attachments_db \in
          IF backend = "main" THEN StoredEarlier ELSE {SeededAttachments}
    /\ file_attachment_id_counter =
          IF backend = "main" THEN 1 ELSE Len(SeededAttachments) + 1
    /\ now = 0
    /\ issued = Ids(file_attachments_db)
    /\ posted = <<>>
    /\ last = no_request

NextCrud ==
    \/ POST_main
    \/ GET_main
    \/ PUT_main
    \/ PATCH_main
    \/ DELETE_main
    \/ POST_in_memory
    \/ GET_in_memory
    \/ PUT_in_memory
    \/ PATCH_in_memory
    \/ DELETE_in_memory

SpecCrud == InitCrud /\ [][NextCrud]_vars

----------------------------------------------------------------------------
(* What happened in the run, read from the calls issued so far *)

Called(name) == \E i \in 1..Len(calls) : calls[i].name = name
OutcomeOf(name) == calls[CHOOSE i \in 1..Len(calls) : calls[i].name = name].outcome

Returned == pc = "returned"
Env == envelope[1]

RetrievalFailed == Called("retrieve") /\ OutcomeOf("retrieve").t = "raise"
RetrievalSucceeded == Called("retrieve") /\ OutcomeOf("retrieve").t = "return"

ExtractionCallRaised == Called("analysis") /\ OutcomeOf("analysis").t = "raise"
ExtractionSucceeded ==
    /\ Called("analysis")
    /\ OutcomeOf("analysis").t = "return"
    /\ OutcomeOf("analysis").v.t # "text"

SynthesisCallRaised == Called("prd") /\ OutcomeOf("prd").t = "raise"
SynthesisUnparsable ==
    /\ Called("prd")
    /\ OutcomeOf("prd").t = "return"
    /\ OutcomeOf("prd").v.t # "obj"
SynthesisFailed == SynthesisCallRaised \/ SynthesisUnparsable
SynthesisSucceeded == Called("prd") /\ ~SynthesisFailed

ClarificationFailed ==
    /\ Called("questions")
    /\ \/ OutcomeOf("questions").t = "raise"
       \/ OutcomeOf("questions").v.t = "text"

ListLen(v) == IF v.t = "list" THEN Len(v.xs) ELSE -1

----------------------------------------------------------------------------
(* Claims *)

C2_MinimumCardinality ==
    (Returned /\ Env.success) =>
        /\ ListLen(Env.prd_content.f.objectives) >= 3
        /\ ListLen(Env.prd_content.f.features) >= 3
        /\ ListLen(Env.prd_content.f.requirements) >= 3
        /\ ListLen(Env.prd_content.f.userStories) >= 2

\* C3: once the clarification stage has executed, clarifying_questions is a
\* list of 2 or 3 strings, whatever the completion call did.
C3_QuestionsLength ==
    Called("questions") => ListLen(state.clarifying_questions) \in {2, 3}

\* C4: when the retriever call raises, the stage is ERROR, the error message
\* is non-empty, no completion call is issued, and the run ends with an
\* envelope whose success is false.
C4_RetrievalFailureIsError ==
    RetrievalFailed =>
        /\ state.processing_stage = "error"
        /\ state.error_message # ""
        /\ Len(calls) = 1
        /\ pc \in {"END", "returned"}
        /\ Returned => ~Env.success

\* C5: whatever the collaborators do, no exception leaves the entry point.
C5_NeverRaises == pc # "raised"

\* C6: when the extraction completion call raises, the stage is ERROR with a
\* non-empty error message, the document keeps its default (empty) form,
\* synthesis and clarification are never called, and the envelope says so
\* with success = false.
C6_ExtractionFailure ==
    ExtractionCallRaised =>
        /\ state.processing_stage = "error"
        /\ state.error_message # ""
        /\ state.prd_content = EmptyDict
        /\ ~Called("prd") /\ ~Called("questions")
        /\ pc \in {"END", "returned"}
        /\ Returned =>
            /\ ~Env.success
            /\ Env.processing_stage = "error"
            /\ Env.error_message # ""
            /\ Env.prd_content = EmptyDict

C6_Witness == Returned /\ ExtractionCallRaised /\ Env.error_message = "Analysis failed: "

\* C7: when synthesis fails (its call raises, or the response is not a JSON
\* object), the stage is ERROR, clarification never runs so
\* clarifying_questions stays [], and the document stays at its default form.
C7_SynthesisFailure ==
    SynthesisFailed =>
        /\ state.processing_stage = "error"
        /\ state.clarifying_questions = EmptyList
        /\ state.prd_content = EmptyDict
        /\ ~Called("questions")
        /\ pc \in {"END", "returned"}
        /\ Returned =>
            /\ ~Env.success
            /\ Env.processing_stage = "error"
            /\ Env.clarifying_questions = EmptyList
            /\ Env.prd_content = EmptyDict

C7_Witness == Returned /\ SynthesisUnparsable /\ OutcomeOf("prd").v.t = "list"

\* C8: when the clarification stage fails (its call raises or the response
\* is not JSON), clarifying_questions is the fixed two-item default, the
\* stage stays GENERATED and the error message stays empty as synthesis left
\* them, and the envelope reports success = true.
C8_ClarificationFallback ==
    ClarificationFailed =>
        /\ state.clarifying_questions =
              JList(<<"Could you provide more details about your target users?",
                      "What are the most important features for your users?">>)
        /\ state.processing_stage = "generated"
        /\ state.error_message = ""
        /\ Returned =>
            /\ Env.success
            /\ Env.processing_stage = "generated"
            /\ Env.error_message = ""
            /\ ListLen(Env.clarifying_questions) = 2

C8_Witness == Returned /\ ClarificationFailed /\ OutcomeOf("questions").t = "raise"

StageRank(s) ==
    CASE s = "starting" -> 0
      [] s = "context_retrieved" -> 1
      [] s = "analyzed" -> 2
      [] s = "generated" -> 3
      [] s = "questions_ready" -> 4
      [] s = "error" -> 5

\* C10: every change of the stage moves to a later stage of the order
\* STARTING, CONTEXT_RETRIEVED, ANALYZED, GENERATED, QUESTIONS_READY or jumps
\* to ERROR; the stage never moves backward.
C10_StageMovesForward ==
    [][state'.processing_stage # state.processing_stage =>
        \/ state'.processing_stage = "error"
        \/ /\ state.processing_stage # "error"
           /\ StageRank(state'.processing_stage) > StageRank(state.processing_stage)]_vars

C10_Witness ==
    /\ stage_history = <<"starting", "analyzed", "error">>
    /\ state.processing_stage = "error"

\* C11: once the stage is ERROR no agent runs and no call is issued any
\* more: the only step left is the return of the envelope, and the stage is
\* still ERROR in it.
C11_ErrorIsAbsorbing ==
    [][state.processing_stage = "error" =>
        /\ state' = state
        /\ calls' = calls
        /\ pc = "END" /\ pc' = "returned"
        /\ envelope'[1].processing_stage = "error"]_vars

C11_Witness ==
    /\ Returned /\ Env.processing_stage = "error"
    /\ Called("prd") /\ ~Called("questions")

\* C12: in every state of the pipeline, and in every returned envelope, the
\* error message is non-empty exactly when the stage is ERROR.
C12_MessageIffError ==
    /\ (state.error_message # "") <=> (state.processing_stage = "error")
    /\ Returned => ((Env.error_message # "") <=> (Env.processing_stage = "error"))

C12_Witness ==
    /\ Returned /\ Env.processing_stage = "error"
    /\ OutcomeOf("analysis") = Raise("")

\* the minimum cardinality the document's list fields are documented to have
MinimumOf(field) == IF field = "userStories" THEN 2 ELSE 3

\* the JSON object the synthesis call returned, and the document made of it
SynthesisInput == OutcomeOf("prd").v.f
Document == state.prd_content.f

AllCanned(field, xs) ==
    \A i \in 1..Len(xs) : \E j \in 1..Len(CannedItems(field)) : xs[i] = CannedItems(field)[j]

\* C13: a list field the model filled with n items, 0 < n < minimum, keeps
\* these n items and is padded with canned items to exactly the minimum, and
\* the run reports success = true.
C13_ShortListIsPadded ==
    SynthesisSucceeded =>
        \A i \in 1..Len(ListFields) :
            LET field == ListFields[i]
                n == ListLen(SynthesisInput[field])
                min == MinimumOf(field)
            IN  (field \in DOMAIN SynthesisInput /\ 0 < n /\ n < min) =>
                    /\ ListLen(Document[field]) = min
                    /\ SubSeq(Document[field].xs, 1, n) = SynthesisInput[field].xs
                    /\ AllCanned(field, SubSeq(Document[field].xs, n + 1, min))
                    /\ Returned => Env.success

ValidDocument(f) ==
    /\ DOMAIN f = PrdFields
    /\ \A i \in 1..Len(ListFields) : ListLen(f[ListFields[i]]) >= MinimumOf(ListFields[i])

\* C14: the repair pass returns a valid document unchanged, and applied to
\* its own output it changes nothing.
C14_RepairIsIdempotent ==
    SynthesisSucceeded =>
        /\ ValidDocument(SynthesisInput) => Document = SynthesisInput
        /\ repair_pass(Document) = Document

C14_Witness ==
    /\ Returned /\ SynthesisSucceeded
    /\ ValidDocument(SynthesisInput)
    /\ Env.prd_content.f.requirements = JList(ModelItems)

RetrievalEmpty == Called("retrieve") /\ OutcomeOf("retrieve") = Return(<<>>)

\* C15: when the retriever returns no document and the extraction and
\* synthesis calls succeed, the stage never becomes ERROR: it goes through
\* ANALYZED to GENERATED, where the run ends with success = true.
C15_EmptyContextIsNotAFailure ==
    /\ (RetrievalEmpty /\ ExtractionSucceeded) => stage_history[2] = "analyzed"
    /\ (RetrievalEmpty /\ ExtractionSucceeded /\ SynthesisSucceeded) =>
        /\ state.processing_stage = "generated"
        /\ \A i \in 1..Len(stage_history) : stage_history[i] # "error"
        /\ Returned => (Env.success /\ Env.processing_stage = "generated")

C15_Witness ==
    /\ Returned /\ RetrievalEmpty /\ ExtractionSucceeded /\ SynthesisSucceeded
    /\ state.retrieved_context = <<>>
    /\ Env.success

ExtractionReturnedObject ==
    /\ Called("analysis")
    /\ OutcomeOf("analysis").t = "return"
    /\ OutcomeOf("analysis").v.t = "obj"

\* C16: after an extraction whose response is a JSON object, the stage has
\* become ANALYZED and the Intent in the state, and in the envelope's
\* analysis, has all six fields, the missing ones in their empty form.
C16_IntentHasAllFields ==
    ExtractionReturnedObject =>
        /\ stage_history[2] = "analyzed"
        /\ IntentFields \subseteq DOMAIN state.analysis_result.f
        /\ Returned => IntentFields \subseteq DOMAIN Env.analysis.f

ExtractionMalformed ==
    /\ Called("analysis")
    /\ OutcomeOf("analysis").t = "return"
    /\ OutcomeOf("analysis").v.t # "obj"

\* C17: when the extraction response is not JSON, or is JSON that is not an
\* object, the stage becomes ERROR without ever being ANALYZED and the
\* synthesis call is not issued.
C17_MalformedIntentFails ==
    ExtractionMalformed =>
        /\ state.processing_stage = "error"
        /\ \A i \in 1..Len(stage_history) : stage_history[i] # "analyzed"
        /\ ~Called("prd")

ExtractionFailed ==
    /\ Called("analysis")
    /\ \/ OutcomeOf("analysis").t = "raise"
       \/ OutcomeOf("analysis").v.t = "text"

\* C18: a failing stage writes the stage and the error message only.  After
\* a failed synthesis the state still holds the Intent of the extraction and
\* the retrieved documents, the envelope's analysis is that Intent and its
\* document is the default; after a failed extraction the state holds the
\* retrieved documents and the initial Intent, document and questions.
C18_FailureWritesNothingElse ==
    /\ SynthesisFailed =>
        /\ state.analysis_result = OutcomeOf("analysis").v
        /\ state.retrieved_context = OutcomeOf("retrieve").v
        /\ state.prd_content = EmptyDict
        /\ Returned =>
            /\ Env.analysis = OutcomeOf("analysis").v
            /\ Env.prd_content = EmptyDict
    /\ ExtractionFailed =>
        /\ state.retrieved_context = OutcomeOf("retrieve").v
        /\ state.analysis_result = EmptyDict
        /\ state.prd_content = EmptyDict
        /\ state.clarifying_questions = EmptyList

C18_Witness ==
    /\ Returned /\ SynthesisCallRaised
    /\ Env.analysis = PartialIntent
    /\ state.retrieved_context = Docs

CallOrder == <<"retrieve", "analysis", "prd", "questions">>

\* C19: the retrieval query and the extraction, synthesis and clarification
\* calls are issued at most once each, in that order.
C19_EachCallOnceInOrder ==
    /\ Len(calls) <= Len(CallOrder)
    /\ \A i \in 1..Len(calls) : i <= Len(CallOrder) => calls[i].name = CallOrder[i]

C19_Witness ==
    /\ Returned /\ Len(calls) = 4
    /\ OutcomeOf("questions").t = "raise"

\* the state an invocation has when it runs alone and its collaborators
\* answer as recorded in cs
StateAlone(cs) ==
    LET s1 == IF Len(cs) >= 2
              THEN AnalyzeInput(initial_state, cs[1].outcome.v, cs[2].outcome)
              ELSE initial_state
        s2 == IF Len(cs) >= 3 THEN GeneratePrd(s1, cs[3].outcome) ELSE s1
    IN  IF Len(cs) >= 4 THEN GenerateQuestions(s2, cs[4].outcome) ELSE s2

Started(r) == runs[r].ref # 0

\* C20: concurrent invocations share no state dictionary, and under every
\* interleaving each one holds the state, and returns the envelope, that it
\* has when it runs alone with the same collaborator responses.
C20_RunsAreIndependent ==
    /\ \A r1, r2 \in Runs :
        (r1 # r2 /\ Started(r1) /\ Started(r2)) => runs[r1].ref # runs[r2].ref
    /\ \A r \in Runs :
        /\ Started(r) => heap[runs[r].ref] = StateAlone(runs[r].calls)
        /\ runs[r].pc = "returned" =>
              runs[r].envelope[1] = result_envelope(StateAlone(runs[r].calls))

C20_Witness ==
    /\ runs[1].pc = "returned" /\ runs[1].envelope[1].success
    /\ runs[1].envelope[1].analysis = FullIntent
    /\ runs[2].pc = "generate_prd"
    /\ heap[runs[2].ref].analysis_result = PartialIntent

----------------------------------------------------------------------------
(* Claims about the title, the overview and the end of the workflow *)

IsNonEmptyString(v) == v.t = "str" /\ v.s # ""

\* C21: in every envelope with success = true the title and the overview of
\* the document are non-empty strings, whatever JSON object the synthesis
\* completion returned (key absent, empty string, null, non-string).
C21_TitleAndOverviewNonEmpty ==
    (Returned /\ Env.success) =>
        /\ IsNonEmptyString(Env.prd_content.f.title)
        /\ IsNonEmptyString(Env.prd_content.f.overview)

\* C28: no envelope has success = true with an unpopulated document: success
\* implies that the synthesis step completed and that prd_content is the
\* repaired document; the workflow never ends in the stage "analyzed".
C28_SuccessHasDocument ==
    /\ pc \in {"END", "returned"} => state.processing_stage # "analyzed"
    /\ (Returned /\ Env.success) =>
          /\ SynthesisSucceeded
          /\ Env.processing_stage = "generated"
          /\ Env.prd_content = JObj(repair_pass(SynthesisInput))
          /\ PrdFields \subseteq DOMAIN Env.prd_content.f
          /\ Env.prd_content # EmptyDict

C28_Witness ==
    /\ Returned /\ Env.success
    /\ "title" \notin DOMAIN SynthesisInput
    /\ Env.prd_content.f.title = DefaultTitle
    /\ ExtractionSucceeded

----------------------------------------------------------------------------
(* Claims about the endpoint /api/process-prd *)

Responded(r) == responses[r] # <<>>
ResponseOf(r) == responses[r][1]

----------------------------------------------------------------------------
(* Claims about the file-attachment endpoints *)

Request == last
Response == last.response
ByPath == {"GET", "PUT", "PATCH", "DELETE"}
Stored(file_id) == file_id \in Ids(file_attachments_db)
RowOf(db, file_id) == db[find_file_attachment_by_id(db, file_id)]

\* the declared fields a PATCH body sets
FieldsSet(body) == DOMAIN body \cap PayloadFields(backend)

\* C22: in main.py, GET, PUT, PATCH and DELETE with file_id < 1 answer 400
\* 'File ID must be a positive integer' and leave the stored attachments
\* unchanged.
C22_InvalidIdIsRejected ==
    [][ (backend = "main" /\ last'.method \in ByPath /\ last'.file_id < 1) =>
            /\ last'.response.status = 400
            /\ last'.response.detail = "File ID must be a positive integer"
            /\ file_attachments_db' = file_attachments_db ]_vars

C22_Witness ==
    /\ backend = "main"
    /\ Request.method = "DELETE" /\ Request.file_id = 0
    /\ Response.status = 400
    /\ Len(file_attachments_db) = 2

\* C23: in main.py, GET, PUT, PATCH and DELETE with a positive file_id that
\* names no stored attachment answer 404 '... not found' and leave every
\* stored attachment unchanged; PATCH does so even when its body is empty.
C23_UnknownIdIsNotFound ==
    [][ (backend = "main" /\ last'.method \in ByPath /\ last'.file_id >= 1
            /\ ~Stored(last'.file_id)) =>
            /\ last'.response.status = 404
            /\ last'.response.detail =
                  "File attachment with ID " \o ToString(last'.file_id) \o " not found"
            /\ file_attachments_db' = file_attachments_db ]_vars

C23_Witness ==
    /\ backend = "main"
    /\ Request.method = "PATCH" /\ Request.body = <<>>
    /\ Request.file_id = 2 /\ ~Stored(2) /\ Stored(1)
    /\ Response.status = 404

\* C24: in main.py, PATCH on an existing attachment with a body that sets no
\* field answers 400 'No fields provided for update' and leaves the
\* attachment unchanged, updated_at included.
C24_EmptyPatchIsRejected ==
    [][ (backend = "main" /\ last'.method = "PATCH" /\ Stored(last'.file_id)
            /\ FieldsSet(last'.body) = {}) =>
            /\ last'.response.status = 400
            /\ last'.response.detail = "No fields provided for update"
            /\ file_attachments_db' = file_attachments_db
            /\ RowOf(file_attachments_db', last'.file_id).updated_at =
                  RowOf(file_attachments_db, last'.file_id).updated_at ]_vars

C24_Witness ==
    /\ backend = "main"
    /\ Request.method = "PATCH" /\ Request.body = <<>>
    /\ Stored(Request.file_id)
    /\ Response.status = 400 /\ Response.detail = "No fields provided for update"

DistinctIds(db) == \A i, j \in 1..Len(db) : i # j => db[i].id # db[j].id

----------------------------------------------------------------------------
(* Claim about the coercion of the repair pass *)

Repaired == repaired_prd[1]

\* C27: in the repair pass a list field whose parsed value is not a list
\* becomes a single-element list holding that value (as str writes it) when
\* the value is truthy and the empty list when it is falsy; the coercion
\* comes before the minimum check of the field, so a falsy value ends up
\* replaced by the canned defaults of the field.
C27_CoercionBeforeMinimum ==
    repaired_prd # <<>> =>
        \A i \in 1..Len(ListFields) :
            LET field == ListFields[i]
            IN  (field \in DOMAIN raw_prd /\ ~IsList(raw_prd[field])) =>
                    IF Truthy(raw_prd[field])
                    THEN /\ IsList(Repaired[field])
                         /\ Len(Repaired[field].xs) = 1
                         /\ Repaired[field].xs[1] = PyStr(raw_prd[field])
                    ELSE Repaired[field] = JList(CannedItems(field))

C27_Witness ==
    /\ repaired_prd # <<>>
    /\ PrdFields \subseteq DOMAIN raw_prd
    /\ raw_prd.objectives = JStr("one item")
    /\ Repaired.objectives = JList(<<"one item">>)
    /\ raw_prd.features = JNum(7)
    /\ Repaired.features = JList(<<"7">>)
    /\ raw_prd.requirements = JNull
    /\ Repaired.requirements =
          JList(<<"Web-based application", "Mobile responsive design", "Secure data storage">>)
    /\ raw_prd.userStories = JNum(0)
    /\ Len(Repaired.userStories.xs) = 2

====
